---- MODULE Spec2Model ----
(***************************************************************************)
(* Model of the backtesting engine of the AI trading dashboard:            *)
(* AdvancedBacktester._execute_trades replays a signal series bar by bar   *)
(* against the close prices and produces the trade ledger;                 *)
(* AdvancedBacktester._calculate_performance reduces the ledger to the     *)
(* equity and drawdown curves.                                             *)
(*                                                                         *)
(* Arithmetic.  The code computes in Python floats; the model computes the *)
(* same expressions exactly.  Close prices are whole dollars and every     *)
(* amount of money (fill prices, pnl, capital, equity) is an integer       *)
(* number of ticks, one tick being 1/SlippageDen of a dollar, so that      *)
(* close * (1 +/- slippage) is an integer.  Bars are numbered 1..n (the    *)
(* code numbers them 0..n-1) and the date of a bar is its number: the      *)
(* price table has one bar per day.                                        *)
(***************************************************************************)
EXTENDS Integers, Sequences, FiniteSets, TLC

\* ---- bounds of the model -------------------------------------------------
MaxBars == 4
MaxConfiguredBars == 2
MaxSeries == 3
MaxPeriod == 3
MaxRows == 2

\* ---- configuration set by AdvancedBacktester.__init__ --------------------
DefaultInitialCapital == 100000
PositionSizeNum == 1
PositionSizeDen == 10
CommissionNum == 1
CommissionDen == 1000
SlippageNum == 1
SlippageDen == 2000

\* signal values: 0 = hold, 1 = buy, -1 = sell
HOLD == 0
BUY == 1
SELL == 0 - 1
Signal == {SELL, HOLD, BUY}

\* close prices of the bars, in dollars
Closes == {4000, 5000, 12000}

\* values a caller can give self.initial_capital, in dollars
InitialCapitals == {50000, DefaultInitialCapital}

\* the strategy names backtest_strategy tests for, and the default argument
SupportedStrategies ==
    {"combined_signals", "rsi_mean_reversion", "trend_following", "breakout"}
DefaultStrategy == "combined_signals"

\* strategy arguments a caller can pass: the supported names and another one
Strategies == SupportedStrategies \cup {"momentum"}

VARIABLES
    initial_capital, \* self.initial_capital, in dollars
    strategy,    \* the strategy argument of backtest_strategy
    generator,   \* the signal generator backtest_strategy has called
    signals,     \* the signal series passed to _execute_trades
    closes,      \* data['Close'], one price per bar
    pc,          \* "call", "dispatch", "loop", "returned" (ledger returned),
                 \* "reported"
    entry,       \* where the run was entered: "call" or "dispatch"
    raised,      \* the exception the except clause of backtest_strategy caught
    i,           \* the bar the loop of _execute_trades is at
    position,    \* the local variable position (None or a dict)
    capital,     \* the local variable capital, in ticks
    trades,      \* the ledger, a sequence of Trade records
    opened,      \* history: every position dict the loop has assigned
    results,     \* the BacktestResults of _calculate_performance
    indicators,  \* the argument of analyze_combined_signals
    fused,       \* the dict analyze_combined_signals returns
    ohlc,        \* the price table given to TechnicalIndicators, one bar per row
    period,      \* the period argument of calculate_rsi and calculate_supertrend
    multiplier,  \* the multiplier argument of calculate_supertrend
    rsi,         \* the series calculate_rsi returns
    supertrend,  \* the series of calculate_supertrend (src/indicators.py)
    demo_supertrend, \* the series of calculate_supertrend (demo.py)
    dataframe,   \* the table passed to a signal generator: column name -> series
    generated,   \* the series a signal generator returns, and its votes per bar
    trade_signal \* the 'Trade_Signal' list of calculate_macd (demo.py)

backtestVars == <<initial_capital, strategy, entry, raised, generator, signals, closes,
                  i, position, capital, trades, opened, results>>
fusionVars == <<indicators, fused>>
indicatorVars == <<ohlc, period, multiplier, rsi, supertrend, demo_supertrend>>
signalVars == <<dataframe, generated, trade_signal>>
vars == <<backtestVars, pc, fusionVars, indicatorVars, signalVars>>

\* what a run of backtest_strategy never assigns
configVars == <<initial_capital, strategy, entry>>

\* ---- helpers -------------------------------------------------------------
\* int(a / b) for b > 0: Python's int() truncates toward zero
IntDiv(a, b) == IF a >= 0 THEN a \div b ELSE 0 - ((0 - a) \div b)

\* one dollar amount in ticks
Ticks(dollars) == dollars * SlippageDen

\* current_price * (1 + self.slippage), in ticks
BuyFillNoSlippage(close) == close * SlippageDen
BuyFill(close) == close * (SlippageDen + SlippageNum)

\* current_price * (1 - self.slippage), in ticks
SellFill(close) == close * (SlippageDen - SlippageNum)

\* int((capital * self.position_size) / entry_price)
QuantityOfInitialCapital(cap, entry_price) ==
    IntDiv(Ticks(initial_capital) * PositionSizeNum, PositionSizeDen * entry_price)
Quantity(cap, entry_price) ==
    IntDiv(cap * PositionSizeNum, PositionSizeDen * entry_price)

\* position = None
None == [side |-> "none", entry_date |-> 0, entry_price |-> 0, quantity |-> 0]

\* the position dict built at an entry
NewPosition(side, date, entry_price, quantity) ==
    [side |-> side, entry_date |-> date, entry_price |-> entry_price,
     quantity |-> quantity]

\* pnl of closing a short: (entry_price - exit_price) * quantity
ShortPnl(pos, exit_price) == (pos.entry_price - exit_price) * pos.quantity

\* pnl of closing a long: (exit_price - entry_price) * quantity
LongPnl(pos, exit_price) == (exit_price - pos.entry_price) * pos.quantity

\* Trade(entry_date=..., exit_date=..., ..., side=..., pnl=..., duration=...);
\* pnl_pct = pnl / (entry_price * quantity) * 100 is kept as the ratio
\* pnl / (entry_price * quantity)
Trade(pos, exit_date, exit_price, side, pnl) ==
    [entry_date |-> pos.entry_date, exit_date |-> exit_date,
     entry_price |-> pos.entry_price, exit_price |-> exit_price,
     quantity |-> pos.quantity, side |-> side, pnl |-> pnl,
     pnl_pct |-> [num |-> pnl, den |-> pos.entry_price * pos.quantity],
     duration |-> exit_date - pos.entry_date]

\* capital += pnl
CapitalAfterCloseDropped(cap, pnl) == cap
CapitalAfterClose(cap, pnl) == cap + pnl

\* if position is None or position['side'] == 'short'   (buy branch)
ActsOnBuyAlways(pos) == TRUE
ActsOnBuy(pos) == pos = None \/ pos.side = "short"

\* if position is None or position['side'] == 'long'    (sell branch)
ActsOnSell(pos) == pos = None \/ pos.side = "long"

\* no BacktestResults computed yet
NoResults == [total_trades |-> 0, total_pnl |-> 0, trades |-> <<>>,
              equity_curve |-> <<>>, drawdown_curve |-> <<>>,
              max_drawdown |-> [num |-> 0, den |-> 1],
              profit_factor |-> [kind |-> "none", num |-> 0, den |-> 1],
              sharpe_ratio |-> [kind |-> "none"],
              annual_return |-> [kind |-> "none", pnl |-> 0, days |-> 0]]

\* ---- TechnicalIndicators ---------------------------------------------------
\* A float of an indicator series: NaN, or the exact ratio num/den (den > 0).
NaN == [nan |-> TRUE, num |-> 0, den |-> 1]
Number(num, den) == [nan |-> FALSE, num |-> num, den |-> den]

\* the bars of a price table: High, Low and Close with Low <= Close <= High
Prices == 1..3
Bars == {b \in [High : Prices, Low : Prices, Close : Prices] :
            b.Low <= b.Close /\ b.Close <= b.High}

\* the multiplier arguments tried (the default is 3.0)
Multipliers == {1, 3}

\* no series computed yet
NoSeries == <<>>
NoSupertrend == [error |-> "not called", direction |-> <<>>, supertrend |-> <<>>,
                 upper_band |-> <<>>, lower_band |-> <<>>]

\* no indicator is being computed
IndicatorsIdle ==
    /\ ohlc = <<>>
    /\ period = 1
    /\ multiplier = 1
    /\ rsi = NoSeries
    /\ supertrend = NoSupertrend
    /\ demo_supertrend = NoSupertrend

\* delta = close.diff(): close[k] - close[k-1], NaN at the first bar
\* delta.where(delta > 0, 0): the NaN of the first bar fails delta > 0 and
\* is replaced by 0 like every non-positive difference
GainTerm(close, k) ==
    IF k > 1 /\ close[k] - close[k - 1] > 0 THEN close[k] - close[k - 1] ELSE 0

\* delta.where(delta < 0, 0), with the same replacement of the first NaN
LossTerm(close, k) ==
    IF k > 1 /\ close[k] - close[k - 1] < 0 THEN close[k] - close[k - 1] ELSE 0

\* the sum a rolling window ending at bar k adds up, over bars from..k
RECURSIVE GainSum(_, _, _)
GainSum(close, from, k) ==
    IF k < from THEN 0 ELSE GainTerm(close, k) + GainSum(close, from, k - 1)

RECURSIVE LossSum(_, _, _)
LossSum(close, from, k) ==
    IF k < from THEN 0 ELSE LossTerm(close, k) + LossSum(close, from, k - 1)

\* rolling(window=period).mean() is NaN until the window holds period rows
WindowFull(k, p) == k >= p

\* rs = gain / loss for the window sums G >= 0 and L >= 0 (the means are
\* G / period and L / period): 0/0 is NaN, x/0 is infinite
RsZeroLossUndefined(G, L) ==
    IF L = 0 THEN [kind |-> "nan", num |-> 0, den |-> 1]
    ELSE [kind |-> "ratio", num |-> G, den |-> L]
Rs(G, L) ==
    IF L = 0
    THEN IF G = 0 THEN [kind |-> "nan", num |-> 0, den |-> 1]
         ELSE [kind |-> "inf", num |-> 0, den |-> 1]
    ELSE [kind |-> "ratio", num |-> G, den |-> L]

\* rsi = 100 - (100 / (1 + rs)): NaN for NaN, 100 - 0 for an infinite rs,
\* and 100 - 100 * den / (den + num) = 100 * num / (num + den) otherwise
RsiOfRs(rs) ==
    IF rs.kind = "nan" THEN NaN
    ELSE IF rs.kind = "inf" THEN Number(100, 1)
    ELSE Number(100 * rs.num, rs.num + rs.den)

\* calculate_rsi(data, period)
calculate_rsi(table, p) ==
    LET close == [k \in 1..Len(table) |-> table[k].Close]
    IN [k \in 1..Len(table) |->
          IF WindowFull(k, p)
          THEN RsiOfRs(Rs(GainSum(close, k - p + 1, k),
                          0 - LossSum(close, k - p + 1, k)))
          ELSE NaN]

\* abs(x)
Abs(x) == IF x < 0 THEN 0 - x ELSE x

\* comparisons of floats: every comparison with NaN is false
Lt(x, y) == ~x.nan /\ ~y.nan /\ x.num * y.den < y.num * x.den
Gt(x, y) == Lt(y, x)
Le(x, y) == ~x.nan /\ ~y.nan /\ x.num * y.den <= y.num * x.den
Ge(x, y) == Le(y, x)

Max(a, b) == IF a >= b THEN a ELSE b

\* true_range: the row maximum of high - low, |high - close.shift()| and
\* |low - close.shift()|; max(axis=1) skips the NaN of the first row
TrueRange(table, k) ==
    IF k = 1 THEN table[k].High - table[k].Low
    ELSE Max(table[k].High - table[k].Low,
             Max(Abs(table[k].High - table[k - 1].Close),
                 Abs(table[k].Low - table[k - 1].Close)))

RECURSIVE TrueRangeSum(_, _, _)
TrueRangeSum(table, from, k) ==
    IF k < from THEN 0 ELSE TrueRange(table, k) + TrueRangeSum(table, from, k - 1)

\* upper_band = hl2 + (multiplier * atr) before the loop, with
\* hl2 = (high + low) / 2 and atr the rolling mean of the true range over
\* period rows (NaN until the window is full): a ratio over 2 * period
UpperCandidate(table, k, p, m) ==
    IF WindowFull(k, p)
    THEN Number(p * (table[k].High + table[k].Low)
                  + 2 * m * TrueRangeSum(table, k - p + 1, k), 2 * p)
    ELSE NaN

\* lower_band = hl2 - (multiplier * atr) before the loop
LowerCandidate(table, k, p, m) ==
    IF WindowFull(k, p)
    THEN Number(p * (table[k].High + table[k].Low)
                  - 2 * m * TrueRangeSum(table, k - p + 1, k), 2 * p)
    ELSE NaN

\* close.iloc[k] as a float
CloseAt(table, k) == Number(table[k].Close, 1)

\* "Upper band calculation": the candidate, or the band of the bar before
StickyUpperAlwaysCandidate(candidate, previous, previous_close) == candidate
StickyUpper(candidate, previous, previous_close) ==
    IF Lt(candidate, previous) \/ Gt(previous_close, previous)
    THEN candidate ELSE previous

\* "Lower band calculation"
StickyLower(candidate, previous, previous_close) ==
    IF Gt(candidate, previous) \/ Lt(previous_close, previous)
    THEN candidate ELSE previous

\* direction values of src/indicators.py
UPTREND == 1
DOWNTREND == 0 - 1

\* "Direction calculation"
DirectionNoCarry(close, lower, upper, previous) ==
    IF Le(close, lower) THEN DOWNTREND ELSE UPTREND
Direction(close, lower, upper, previous) ==
    IF Le(close, lower) THEN DOWNTREND
    ELSE IF Ge(close, upper) THEN UPTREND
    ELSE previous

\* the loop "Calculate Supertrend" from bar k on; the four series hold the
\* values of the bars before k
RECURSIVE SupertrendLoop(_, _, _, _, _, _, _, _)
SupertrendLoop(table, k, p, m, upper_band, lower_band, direction, trend) ==
    IF k > Len(table)
    THEN [error |-> "none", direction |-> direction, supertrend |-> trend,
          upper_band |-> upper_band, lower_band |-> lower_band]
    ELSE LET upper == StickyUpper(UpperCandidate(table, k, p, m), upper_band[k - 1],
                                  CloseAt(table, k - 1))
             lower == StickyLower(LowerCandidate(table, k, p, m), lower_band[k - 1],
                                  CloseAt(table, k - 1))
             dir == Direction(CloseAt(table, k), lower, upper, direction[k - 1])
             line == IF dir = UPTREND THEN lower ELSE upper
         IN SupertrendLoop(table, k + 1, p, m, Append(upper_band, upper),
                           Append(lower_band, lower), Append(direction, dir),
                           Append(trend, line))

\* "Set initial values": direction.iloc[0] = 1
InitialDirection == UPTREND

\* "Set initial values": supertrend.iloc[0] = close.iloc[0]
InitialTrendLine(table, p, m) == CloseAt(table, 1)

\* calculate_supertrend(data, period, multiplier) of src/indicators.py; on an
\* empty table close.iloc[0] raises IndexError.  The dict returned holds the
\* direction and the two bands; the trend line stays local.
calculate_supertrend(table, p, m) ==
    IF table = <<>>
    THEN [error |-> "IndexError", direction |-> <<>>, supertrend |-> <<>>,
          upper_band |-> <<>>, lower_band |-> <<>>]
    ELSE SupertrendLoop(table, 2, p, m, <<UpperCandidate(table, 1, p, m)>>,
                        <<LowerCandidate(table, 1, p, m)>>, <<InitialDirection>>,
                        <<InitialTrendLine(table, p, m)>>)

\* the loop "Supertrend calculation" of demo.py from bar k on: the bands are
\* the candidates, the direction is 'BUY' or 'SELL'
RECURSIVE DemoSupertrendLoop(_, _, _, _, _, _)
DemoSupertrendLoop(table, k, p, m, direction, trend) ==
    IF k > Len(table)
    THEN [error |-> "none", direction |-> direction, supertrend |-> trend,
          upper_band |-> [j \in 1..Len(table) |-> UpperCandidate(table, j, p, m)],
          lower_band |-> [j \in 1..Len(table) |-> LowerCandidate(table, j, p, m)]]
    ELSE LET upper == UpperCandidate(table, k, p, m)
             lower == LowerCandidate(table, k, p, m)
             down == k = 1 \/ Le(CloseAt(table, k), lower)
             up == ~down /\ Ge(CloseAt(table, k), upper)
         IN DemoSupertrendLoop(table, k + 1, p, m,
               Append(direction, IF down THEN "SELL" ELSE IF up THEN "BUY"
                                 ELSE direction[k - 1]),
               Append(trend, IF down THEN upper ELSE IF up THEN lower
                             ELSE trend[k - 1]))

\* calculate_supertrend(data, period, multiplier) of demo.py
demo_calculate_supertrend(table, p, m) ==
    DemoSupertrendLoop(table, 1, p, m, <<>>, <<>>)

\* ---- analyze_combined_signals (demo.py) ----------------------------------
\* indicators[...]['Current'] of the RSI: a number, NaN, or no 'rsi' key
RsiAbsent == [kind |-> "absent", value |-> 0]
RsiNaN == [kind |-> "nan", value |-> 0]
RsiNumber(v) == [kind |-> "number", value |-> v]
RsiCurrents == {0, 29, 30, 50, 70, 71, 100}
RsiInputs == {RsiAbsent, RsiNaN} \cup {RsiNumber(v) : v \in RsiCurrents}

\* indicators[...]['Current'] of Supertrend and of MACD, or no such key
VoteInputs == {"absent", "BUY", "SELL", "HOLD"}

\* no dict returned yet
NoFusedSignal == [overall |-> "none", confidence |-> [num |-> 0, den |-> 1],
                  individual |-> <<>>, strength |-> 0]

\* nothing is being fused
FusionIdle == indicators = [rsi |-> RsiAbsent, supertrend |-> "absent", macd |-> "absent"]
              /\ fused = NoFusedSignal

\* "RSI Signal": the tuple appended for the RSI, <<>> without the key
RsiVote(rsi_signal) ==
    IF rsi_signal.kind = "absent" THEN <<>>
    ELSE IF rsi_signal.kind = "number" /\ rsi_signal.value < 30
         THEN << <<"RSI", "BUY", "Strong">> >>
    ELSE IF rsi_signal.kind = "number" /\ rsi_signal.value > 70
         THEN << <<"RSI", "SELL", "Strong">> >>
    ELSE << <<"RSI", "NEUTRAL", "Weak">> >>

\* "Supertrend Signal" and "MACD Signal": the tuple appended for source name
NamedVote(name, current) ==
    IF current = "absent" THEN <<>>
    ELSE IF current = "BUY" THEN << <<name, "BUY", "Strong">> >>
    ELSE IF current = "SELL" THEN << <<name, "SELL", "Strong">> >>
    ELSE << <<name, "NEUTRAL", "Weak">> >>

\* signal_strength += 1 / -= 1 along the appended tuples
RECURSIVE SignalStrength(_)
SignalStrength(votes) ==
    IF votes = <<>> THEN 0
    ELSE (IF votes[1][2] = "BUY" THEN 1 ELSE IF votes[1][2] = "SELL" THEN 0 - 1 ELSE 0)
         + SignalStrength(Tail(votes))

\* "Overall direction"
OverallStrongOnlyAtThree(signal_strength) ==
    IF signal_strength > 2 THEN "STRONG BUY"
    ELSE IF signal_strength >= 1 THEN "BUY"
    ELSE IF signal_strength < 0 - 2 THEN "STRONG SELL"
    ELSE IF signal_strength <= 0 - 1 THEN "SELL"
    ELSE "HOLD"
Overall(signal_strength) ==
    IF signal_strength >= 2 THEN "STRONG BUY"
    ELSE IF signal_strength = 1 THEN "BUY"
    ELSE IF signal_strength <= 0 - 2 THEN "STRONG SELL"
    ELSE IF signal_strength = 0 - 1 THEN "SELL"
    ELSE "HOLD"

\* the literal 3 of the confidence
ConfidenceIndicators == 3

\* confidence = abs(signal_strength) / 3 * 100, kept as an exact ratio
Confidence(signal_strength) ==
    [num |-> Abs(signal_strength) * 100, den |-> ConfidenceIndicators]

\* analyze_combined_signals(indicators)
analyze_combined_signals(ind) ==
    LET votes == RsiVote(ind.rsi) \o NamedVote("Supertrend", ind.supertrend)
                   \o NamedVote("MACD", ind.macd)
        signal_strength == SignalStrength(votes)
    IN [overall |-> Overall(signal_strength),
        confidence |-> Confidence(signal_strength),
        individual |-> votes,
        strength |-> signal_strength]

\* ---- signal generators (src/backtesting.py) --------------------------------
\* values of the 'RSI' column: undefined, and values on both sides of the
\* thresholds of the generators
RsiColumnValues == {NaN, Number(20, 1), Number(30, 1), Number(80, 1)}

\* values of the 'SupertrendDirection' column
DirectionColumnValues == {NaN, Number(1, 1), Number(0 - 1, 1)}

\* values of the 'MACD' and 'MACD_Signal' columns
MacdColumnValues == {NaN, Number(0, 1), Number(1, 1)}
MacdSignalColumnValues == {Number(0, 1), Number(1, 1)}

\* the rows of the table a generator is given: the price columns and the
\* indicator columns backtest_strategy adds
Rows ==
    [Close : {Number(1, 1)}, High : {Number(1, 1)}, Low : {Number(1, 1)},
     Volume : {Number(1, 1)}, RSI : RsiColumnValues,
     SupertrendDirection : DirectionColumnValues,
     MACD : MacdColumnValues, MACD_Signal : MacdSignalColumnValues]

Columns == {"Close", "High", "Low", "Volume", "RSI", "SupertrendDirection", "MACD",
            "MACD_Signal"}

\* the DataFrame of a sequence of rows
DataFrame(rows) == [c \in Columns |-> [k \in 1..Len(rows) |-> rows[k][c]]]

\* len(data)
Rowcount(table) == Len(table["Close"])

NoSignals == [by |-> "none", signals |-> <<>>, votes |-> <<>>]

SignalsIdle ==
    /\ dataframe = DataFrame(<<>>)
    /\ generated = NoSignals
    /\ trade_signal = <<>>

Equals(x, y) == ~x.nan /\ ~y.nan /\ x.num * y.den = y.num * x.den

\* "RSI signals" for bar k
RsiCrossVote(table, k) ==
    IF Lt(table["RSI"][k], Number(30, 1)) /\ Ge(table["RSI"][k - 1], Number(30, 1))
    THEN BUY
    ELSE IF Gt(table["RSI"][k], Number(70, 1))
            /\ Le(table["RSI"][k - 1], Number(70, 1))
    THEN SELL
    ELSE HOLD

\* "Supertrend signals" for bar k
SupertrendFlipVote(table, k) ==
    IF Equals(table["SupertrendDirection"][k], Number(1, 1))
       /\ Equals(table["SupertrendDirection"][k - 1], Number(0 - 1, 1))
    THEN BUY
    ELSE IF Equals(table["SupertrendDirection"][k], Number(0 - 1, 1))
            /\ Equals(table["SupertrendDirection"][k - 1], Number(1, 1))
    THEN SELL
    ELSE HOLD

\* "MACD signals" for bar k
MacdVoteNonStrict(table, k) ==
    IF Ge(table["MACD"][k], table["MACD_Signal"][k])
       /\ Le(table["MACD"][k - 1], table["MACD_Signal"][k - 1])
    THEN BUY
    ELSE IF Lt(table["MACD"][k], table["MACD_Signal"][k])
            /\ Ge(table["MACD"][k - 1], table["MACD_Signal"][k - 1])
    THEN SELL
    ELSE HOLD
MacdVote(table, k) ==
    IF Gt(table["MACD"][k], table["MACD_Signal"][k])
       /\ Le(table["MACD"][k - 1], table["MACD_Signal"][k - 1])
    THEN BUY
    ELSE IF Lt(table["MACD"][k], table["MACD_Signal"][k])
            /\ Ge(table["MACD"][k - 1], table["MACD_Signal"][k - 1])
    THEN SELL
    ELSE HOLD

\* the votes of the three indicators for bar k; the loop starts at the second
\* bar, so nothing votes for the first
Votes(table, k) ==
    IF k = 1 THEN [rsi |-> HOLD, supertrend |-> HOLD, macd |-> HOLD]
    ELSE [rsi |-> RsiCrossVote(table, k), supertrend |-> SupertrendFlipVote(table, k),
          macd |-> MacdVote(table, k)]

\* buy_signals, or sell_signals for side = SELL
Count(votes, side) ==
    (IF votes.rsi = side THEN 1 ELSE 0) + (IF votes.supertrend = side THEN 1 ELSE 0)
        + (IF votes.macd = side THEN 1 ELSE 0)

\* the number of agreeing indicators a signal needs
Majority == 2

\* "Generate signal based on majority"
MajoritySignalAnyVote(votes) ==
    IF Count(votes, BUY) >= 1 THEN BUY
    ELSE IF Count(votes, SELL) >= 1 THEN SELL
    ELSE HOLD
MajoritySignal(votes) ==
    IF Count(votes, BUY) >= Majority THEN BUY
    ELSE IF Count(votes, SELL) >= Majority THEN SELL
    ELSE HOLD

\* _generate_combined_signals(data)
_generate_combined_signals(table) ==
    [k \in 1..Rowcount(table) |-> MajoritySignal(Votes(table, k))]

\* _generate_rsi_signals(data)
_generate_rsi_signals(table) ==
    [k \in 1..Rowcount(table) |->
        IF k = 1 THEN HOLD
        ELSE IF Lt(table["RSI"][k], Number(25, 1)) THEN BUY
        ELSE IF Gt(table["RSI"][k], Number(75, 1)) THEN SELL
        ELSE HOLD]

\* _generate_trend_signals(data)
_generate_trend_signals(table) ==
    [k \in 1..Rowcount(table) |->
        IF k = 1 THEN HOLD
        ELSE IF Equals(table["SupertrendDirection"][k], Number(1, 1))
                /\ Gt(table["MACD"][k], table["MACD_Signal"][k]) THEN BUY
        ELSE IF Equals(table["SupertrendDirection"][k], Number(0 - 1, 1))
                /\ Lt(table["MACD"][k], table["MACD_Signal"][k]) THEN SELL
        ELSE HOLD]

\* the windows of the breakout strategy
BreakoutWindow == 20
VolumeWindow == 10

\* series.rolling(w).max().iloc[k] and .min(): NaN until the window is full
RollingMax(series, w, k) ==
    IF k < w THEN NaN
    ELSE CHOOSE x \in {series[j] : j \in (k - w + 1)..k} :
            \A j \in (k - w + 1)..k : Le(series[j], x)

RollingMin(series, w, k) ==
    IF k < w THEN NaN
    ELSE CHOOSE x \in {series[j] : j \in (k - w + 1)..k} :
            \A j \in (k - w + 1)..k : Ge(series[j], x)

RECURSIVE WindowSum(_, _, _)
WindowSum(series, from, k) ==
    IF k < from THEN 0 ELSE series[k].num + WindowSum(series, from, k - 1)

\* series.rolling(w).mean().iloc[k], of a series of whole numbers
RollingMean(series, w, k) ==
    IF k < w THEN NaN ELSE Number(WindowSum(series, k - w + 1, k), w)

\* data['High_20'] = ..., data['Low_20'] = ...: the table after
\* _generate_breakout_signals has added its two columns to it
WithBreakoutColumns(table) ==
    [c \in DOMAIN table \cup {"High_20", "Low_20"} |->
        IF c = "High_20"
        THEN [k \in 1..Rowcount(table) |-> RollingMax(table["High"], BreakoutWindow, k)]
        ELSE IF c = "Low_20"
        THEN [k \in 1..Rowcount(table) |-> RollingMin(table["Low"], BreakoutWindow, k)]
        ELSE table[c]]

\* _generate_breakout_signals(data): the loop starts at bar BreakoutWindow + 1
_generate_breakout_signals(table) ==
    LET t == WithBreakoutColumns(table)
        loud(k) == Gt(t["Volume"][k], RollingMean(t["Volume"], VolumeWindow, k))
    IN [k \in 1..Rowcount(table) |->
           IF k <= BreakoutWindow THEN HOLD
           ELSE IF Gt(t["Close"][k], t["High_20"][k - 1]) /\ loud(k) THEN BUY
           ELSE IF Lt(t["Close"][k], t["Low_20"][k - 1]) /\ loud(k) THEN SELL
           ELSE HOLD]

\* "Generate trade signals" of calculate_macd (demo.py), for bar k
MacdTradeSignal(macd, signal_line, k) ==
    IF k = 1 THEN "HOLD"
    ELSE IF Gt(macd[k], signal_line[k]) /\ Le(macd[k - 1], signal_line[k - 1])
    THEN "BUY"
    ELSE IF Lt(macd[k], signal_line[k]) /\ Ge(macd[k - 1], signal_line[k - 1])
    THEN "SELL"
    ELSE "HOLD"

\* ---- backtest_strategy ---------------------------------------------------
\* backtest_strategy is entered by its call (line 72).  No indicator class of
\* the repository returns the keys lines 85-89 read, so the strategy dispatch
\* and what follows it (lines 91-107) are also entered directly, on a table
\* that carries the indicator columns.
Entries(n) == IF n = 0 THEN {"call"} ELSE {"call", "dispatch"}

\* the state of a run before its signals are generated, on a table of n bars
Start(n) ==
    /\ closes \in [1..n -> Closes]
    /\ signals = <<>>
    /\ generator = "none"
    /\ entry \in Entries(n)
    /\ pc = entry
    /\ raised = "none"
    /\ i = 1
    /\ position = None
    /\ capital = 0
    /\ trades = <<>>
    /\ opened = {}
    /\ results = NoResults
    /\ FusionIdle
    /\ IndicatorsIdle
    /\ SignalsIdle

\* a backtester as constructed, called with the default strategy
Init ==
    /\ initial_capital = DefaultInitialCapital
    /\ strategy = DefaultStrategy
    /\ \E n \in 0..MaxBars : Start(n)

\* a backtester whose capital the caller has set, called with any strategy name
InitConfigured ==
    /\ initial_capital \in InitialCapitals
    /\ strategy \in Strategies
    /\ \E n \in 0..MaxConfiguredBars : Start(n)

\* "Generate signals based on strategy": the generator the if/elif chain calls
Generator(name) ==
    IF name = "combined_signals" THEN "_generate_combined_signals"
    ELSE IF name = "rsi_mean_reversion" THEN "_generate_rsi_signals"
    ELSE IF name = "trend_following" THEN "_generate_trend_signals"
    ELSE IF name = "breakout" THEN "_generate_breakout_signals"
    ELSE "_generate_combined_signals"

\* signals = self._generate_..._signals(data), one signal per bar, and the
\* entry into _execute_trades: trades = [], position = None,
\* capital = self.initial_capital
GenerateSignals ==
    /\ pc = "dispatch"
    /\ closes # <<>>
    /\ pc' = "loop"
    /\ generator' = Generator(strategy)
    /\ signals' \in [1..Len(closes) -> Signal]
    /\ capital' = Ticks(initial_capital)
    /\ UNCHANGED <<configVars, raised, closes, i, position, trades, opened, results>>
    /\ UNCHANGED <<fusionVars, indicatorVars, signalVars>>

\* ---- _execute_trades -----------------------------------------------------

InLoop == pc = "loop" /\ i <= Len(signals)

\* if signal == 0: continue
HoldBar ==
    /\ InLoop
    /\ signals[i] = HOLD
    /\ i' = i + 1
    /\ UNCHANGED <<configVars, raised, generator, signals, closes, pc, position, capital,
                   trades, opened, results>>
    /\ UNCHANGED <<fusionVars, indicatorVars, signalVars>>

\* if signal == 1: the buy branch
BuyBar ==
    /\ InLoop
    /\ signals[i] = BUY
    /\ i' = i + 1
    /\ IF ActsOnBuy(position)
       THEN LET exit_price == BuyFill(closes[i])
                pnl == ShortPnl(position, exit_price)
                closing == position # None
                cap == IF closing THEN CapitalAfterClose(capital, pnl) ELSE capital
                entry_price == BuyFill(closes[i])
                quantity == Quantity(cap, entry_price)
                newpos == NewPosition("long", i, entry_price, quantity)
            IN /\ trades' = IF closing
                            THEN Append(trades, Trade(position, i, exit_price, "short", pnl))
                            ELSE trades
               /\ capital' = cap
               /\ position' = IF quantity > 0 THEN newpos ELSE position
               /\ opened' = IF quantity > 0 THEN opened \cup {newpos} ELSE opened
       ELSE UNCHANGED <<position, capital, trades, opened>>
    /\ UNCHANGED <<configVars, raised, generator, signals, closes, pc, results>>
    /\ UNCHANGED <<fusionVars, indicatorVars, signalVars>>

\* elif signal == -1: the sell branch
SellBar ==
    /\ InLoop
    /\ signals[i] = SELL
    /\ i' = i + 1
    /\ IF ActsOnSell(position)
       THEN LET exit_price == SellFill(closes[i])
                pnl == LongPnl(position, exit_price)
                closing == position # None
                cap == IF closing THEN CapitalAfterClose(capital, pnl) ELSE capital
                entry_price == SellFill(closes[i])
                quantity == Quantity(cap, entry_price)
                newpos == NewPosition("short", i, entry_price, quantity)
            IN /\ trades' = IF closing
                            THEN Append(trades, Trade(position, i, exit_price, "long", pnl))
                            ELSE trades
               /\ capital' = cap
               /\ position' = IF quantity > 0 THEN newpos ELSE position
               /\ opened' = IF quantity > 0 THEN opened \cup {newpos} ELSE opened
       ELSE UNCHANGED <<position, capital, trades, opened>>
    /\ UNCHANGED <<configVars, raised, generator, signals, closes, pc, results>>
    /\ UNCHANGED <<fusionVars, indicatorVars, signalVars>>

\* final_price = data['Close'].iloc[-1]
FinalPriceFirstBar(data) == data[1]
FinalPrice(data) == data[Len(data)]

\* the side recorded by the final close: side=position['side']
FinalSide(pos) == pos.side

\* "Close final position if exists", then return trades
CloseFinal ==
    /\ pc = "loop"
    /\ i > Len(signals)
    /\ pc' = "returned"
    /\ IF position # None
       THEN LET final_price == FinalPrice(closes)
                exit_price == IF position.side = "long"
                              THEN SellFill(final_price)
                              ELSE BuyFill(final_price)
                pnl == IF position.side = "long"
                       THEN LongPnl(position, exit_price)
                       ELSE ShortPnl(position, exit_price)
            IN trades' = Append(trades, Trade(position, Len(closes), exit_price,
                                              FinalSide(position), pnl))
       ELSE trades' = trades
    /\ UNCHANGED <<configVars, raised, generator, signals, closes, i, position, capital,
                   opened, results>>
    /\ UNCHANGED <<fusionVars, indicatorVars, signalVars>>

\* ---- _calculate_performance ----------------------------------------------
\* a ratio num/den of two tick amounts, kept exact
Ratio(num, den) == [num |-> num, den |-> den]

\* a/b < c/d for a, c >= 0 and b, d > 0, by comparing the integer parts and
\* then the reciprocals of the fractional parts
RECURSIVE FracLess(_, _, _, _)
FracLess(a, b, c, d) ==
    IF a \div b # c \div d THEN a \div b < c \div d
    ELSE IF c % d = 0 THEN FALSE
    ELSE IF a % b = 0 THEN TRUE
    ELSE FracLess(d, c % d, b, a % b)

\* drawdown > max_drawdown
RatioGreater(x, y) == FracLess(y.num, y.den, x.num, x.den)

\* sum(trade.pnl for trade in trades)
RECURSIVE SumPnl(_)
SumPnl(ts) == IF ts = <<>> THEN 0 ELSE ts[1].pnl + SumPnl(Tail(ts))

\* running_total += trade.pnl
RunningTotalReset(running_total, trade) == trade.pnl
RunningTotal(running_total, trade) == running_total + trade.pnl

\* if drawdown > max_drawdown: max_drawdown = drawdown
MaxDrawdownLatest(drawdown, max_drawdown) == drawdown
MaxDrawdown(drawdown, max_drawdown) ==
    IF RatioGreater(drawdown, max_drawdown) THEN drawdown ELSE max_drawdown

\* "Equity curve and drawdown": the loop over the trades, from trade k on.
\* A drawdown is (peak_equity - running_total) / peak_equity * 100; the curve
\* keeps the ratio (peak_equity - running_total) / peak_equity.
RECURSIVE EquityLoop(_, _, _, _, _, _, _)
EquityLoop(ts, k, running_total, peak_equity, max_drawdown, equity_curve, drawdown_curve) ==
    IF k > Len(ts)
    THEN [equity_curve |-> equity_curve, drawdown_curve |-> drawdown_curve,
          max_drawdown |-> max_drawdown]
    ELSE LET rt == RunningTotal(running_total, ts[k])
             peak == IF rt > peak_equity THEN rt ELSE peak_equity
             drawdown == Ratio(peak - rt, peak)
             maxdd == MaxDrawdown(drawdown, max_drawdown)
         IN EquityLoop(ts, k + 1, rt, peak, maxdd,
                       Append(equity_curve, rt), Append(drawdown_curve, drawdown))

\* a division of the metrics: a zero divisor raises
Divide(num, den) ==
    IF den = 0 THEN [kind |-> "ZeroDivisionError", num |-> 0, den |-> 1]
    ELSE [kind |-> "ratio", num |-> num, den |-> den]

Zero == [kind |-> "ratio", num |-> 0, den |-> 1]

\* float('inf')
Infinity == [kind |-> "inf", num |-> 0, den |-> 1]

\* the literal 100000 of _empty_results
EmptyEquity == 100000

\* _empty_results(): all zero, trades=[], equity_curve=[100000], drawdown_curve=[0]
_empty_results ==
    [total_trades |-> 0, total_pnl |-> 0, trades |-> <<>>,
     equity_curve |-> <<Ticks(EmptyEquity)>>,
     drawdown_curve |-> <<Ratio(0, 1)>>, max_drawdown |-> Ratio(0, 1),
     profit_factor |-> Zero, sharpe_ratio |-> [kind |-> "zero"],
     annual_return |-> [kind |-> "zero", pnl |-> 0, days |-> 0]]

\* sum(t.pnl for t in winning_trades), winning_trades those with pnl > 0
RECURSIVE GrossProfitOf(_)
GrossProfitOf(ts) ==
    IF ts = <<>> THEN 0
    ELSE (IF ts[1].pnl > 0 THEN ts[1].pnl ELSE 0) + GrossProfitOf(Tail(ts))

\* abs(sum(t.pnl for t in losing_trades)), losing_trades those with pnl <= 0
GrossLossOf(ts) == Abs(SumPnl(ts) - GrossProfitOf(ts))

\* profit_factor = gross_profit / gross_loss if gross_loss > 0 else float('inf')
ProfitFactorUnguarded(gross_profit, gross_loss) == Divide(gross_profit, gross_loss)
ProfitFactor(gross_profit, gross_loss) ==
    IF gross_loss > 0 THEN Divide(gross_profit, gross_loss) ELSE Infinity

\* x = y for two pnl_pct ratios (den > 0), without multiplying them out
SameRatio(x, y) ==
    /\ (x.num < 0) = (y.num < 0)
    /\ ~FracLess(Abs(x.num), x.den, Abs(y.num), y.den)
    /\ ~FracLess(Abs(y.num), y.den, Abs(x.num), x.den)

\* np.std(returns) > 0, returns = [t.pnl_pct for t in trades]: the standard
\* deviation is 0 exactly when all returns are the same
StdPositive(ts) == \E k \in 1..Len(ts) : ~SameRatio(ts[k].pnl_pct, ts[1].pnl_pct)

\* sharpe_ratio = np.mean(returns) / np.std(returns) if np.std(returns) > 0
\* else 0; the quotient itself is not computed
SharpeRatio(ts) == IF StdPositive(ts) THEN [kind |-> "mean/std"] ELSE [kind |-> "zero"]

\* days_total: the days from the first entry date to the last exit date, the
\* bars being one day apart
DaysTotal(ts) == ts[Len(ts)].exit_date - ts[1].entry_date

\* the days of the year the annualized return scales to
DaysPerYear == 365

\* annual_return = total_return * (365 / days_total) if days_total > 0 else 0;
\* kept as total_pnl and days_total, total_return being
\* total_pnl / initial_capital * 100
AnnualReturn(total_pnl, days_total) ==
    IF days_total > 0
    THEN [kind |-> Divide(DaysPerYear, days_total).kind, pnl |-> total_pnl,
          days |-> days_total]
    ELSE [kind |-> "zero", pnl |-> 0, days |-> 0]

\* _calculate_performance(trades, data); an exception of the metrics is caught
\* by its except clause: return self._empty_results()
_calculate_performance(ts) ==
    IF ts = <<>>
    THEN _empty_results
    ELSE LET loop == EquityLoop(ts, 1, Ticks(initial_capital), Ticks(initial_capital),
                                Ratio(0, 1), <<Ticks(initial_capital)>>, <<Ratio(0, 1)>>)
             total_return == Divide(SumPnl(ts), Ticks(initial_capital))
             profit_factor == ProfitFactor(GrossProfitOf(ts), GrossLossOf(ts))
             annual_return == AnnualReturn(SumPnl(ts), DaysTotal(ts))
         IN IF "ZeroDivisionError" \in {total_return.kind, profit_factor.kind,
                                        annual_return.kind}
            THEN _empty_results
            ELSE [total_trades |-> Len(ts), total_pnl |-> SumPnl(ts), trades |-> ts,
                  equity_curve |-> loop.equity_curve,
                  drawdown_curve |-> loop.drawdown_curve,
                  max_drawdown |-> loop.max_drawdown,
                  profit_factor |-> profit_factor,
                  sharpe_ratio |-> SharpeRatio(ts),
                  annual_return |-> annual_return]

\* if data.empty: raise ValueError(...), caught by the except clause of
\* backtest_strategy: return self._empty_results()
EmptyData ==
    /\ pc = "call"
    /\ closes = <<>>
    /\ pc' = "reported"
    /\ raised' = "ValueError"
    /\ results' = _empty_results
    /\ UNCHANGED <<configVars, generator, signals, closes, i, position, capital,
                   trades, opened>>
    /\ UNCHANGED <<fusionVars, indicatorVars, signalVars>>

\* what backtest_strategy passes to calculate_rsi and calculate_macd:
\* data['Close'], a Series, which has no column 'Close'
CloseColumnLabels == {}

\* the column calculate_rsi and calculate_macd of src/indicators.py read from
\* their argument
ColumnRead == "Close"

\* the keys of the dict calculate_supertrend of src/indicators.py returns
SupertrendKeys == {"Supertrend", "Supertrend_Upper", "Supertrend_Lower"}

\* the keys of the dict calculate_macd of src/indicators.py returns
MacdKeys == {"MACD", "MACD_Signal", "MACD_Histogram"}

\* the keys backtest_strategy reads from the two dicts
SupertrendKeysRead == {"trend", "direction"}
MacdKeysRead == {"macd", "signal", "histogram"}

\* "Calculate indicators" and "Add indicators to data": the exception the
\* block raises, "none" when it raises nothing
IndicatorBlock ==
    IF ColumnRead \notin CloseColumnLabels THEN "KeyError"
    ELSE IF ~(SupertrendKeysRead \subseteq SupertrendKeys) THEN "KeyError"
    ELSE IF ~(MacdKeysRead \subseteq MacdKeys) THEN "KeyError"
    ELSE "none"

\* the indicator block of backtest_strategy on a non-empty table; what it
\* raises is caught by the except clause: return self._empty_results()
CalculateIndicators ==
    /\ pc = "call"
    /\ closes # <<>>
    /\ IF IndicatorBlock = "none"
       THEN pc' = "dispatch" /\ UNCHANGED <<raised, results>>
       ELSE /\ pc' = "reported"
            /\ raised' = IndicatorBlock
            /\ results' = _empty_results
    /\ UNCHANGED <<configVars, generator, signals, closes, i, position, capital,
                   trades, opened>>
    /\ UNCHANGED <<fusionVars, indicatorVars, signalVars>>

\* results = self._calculate_performance(trades, data)
CalculatePerformance ==
    /\ pc = "returned"
    /\ pc' = "reported"
    /\ results' = _calculate_performance(trades)
    /\ UNCHANGED <<configVars, raised, generator, signals, closes, i, position, capital,
                   trades, opened>>
    /\ UNCHANGED <<fusionVars, indicatorVars, signalVars>>

Next ==
    \/ EmptyData
    \/ CalculateIndicators
    \/ GenerateSignals
    \/ HoldBar
    \/ BuyBar
    \/ SellBar
    \/ CloseFinal
    \/ CalculatePerformance

Spec == Init /\ [][Next]_vars

\* the same run for every configured capital and every strategy argument
SpecConfigured == InitConfigured /\ [][Next]_vars

\* ---- indicator calculation -------------------------------------------------
\* the indicators are computed on any price table, period and multiplier
InitIndicators ==
    /\ \E n \in 0..MaxSeries : ohlc \in [1..n -> Bars]
    /\ period \in 1..MaxPeriod
    /\ multiplier \in Multipliers
    /\ rsi = NoSeries
    /\ supertrend = NoSupertrend
    /\ demo_supertrend = NoSupertrend
    /\ pc = "indicators"
    /\ initial_capital = DefaultInitialCapital
    /\ strategy = DefaultStrategy
    /\ entry = "call"
    /\ raised = "none"
    /\ generator = "none"
    /\ signals = <<>>
    /\ closes = <<>>
    /\ i = 1
    /\ position = None
    /\ capital = 0
    /\ trades = <<>>
    /\ opened = {}
    /\ results = NoResults
    /\ FusionIdle
    /\ SignalsIdle

\* indicators['rsi'] = calculate_rsi(data, period)
CalculateRsi ==
    /\ pc = "indicators"
    /\ pc' = "rsi"
    /\ rsi' = calculate_rsi(ohlc, period)
    /\ UNCHANGED <<backtestVars, fusionVars, signalVars, ohlc, period, multiplier, supertrend,
                   demo_supertrend>>

\* indicators['supertrend'] = calculate_supertrend(data, period, multiplier),
\* with the class of src/indicators.py
CalculateSupertrend ==
    /\ pc = "rsi"
    /\ pc' = "supertrend"
    /\ supertrend' = calculate_supertrend(ohlc, period, multiplier)
    /\ UNCHANGED <<backtestVars, fusionVars, signalVars, ohlc, period, multiplier, rsi,
                   demo_supertrend>>

\* calculate_supertrend(data, period, multiplier) of the class of demo.py,
\* called with its own period and multiplier
DemoCalculateSupertrend ==
    /\ pc = "supertrend"
    /\ pc' = "demo_supertrend"
    /\ \E p \in 1..MaxPeriod, m \in Multipliers :
          demo_supertrend' = demo_calculate_supertrend(ohlc, p, m)
    /\ UNCHANGED <<backtestVars, fusionVars, signalVars, ohlc, period, multiplier, rsi,
                   supertrend>>

NextIndicators == CalculateRsi \/ CalculateSupertrend \/ DemoCalculateSupertrend

SpecIndicators == InitIndicators /\ [][NextIndicators]_vars

\* ---- signal fusion --------------------------------------------------------
\* a call of analyze_combined_signals on any dict of current values
InitFusion ==
    /\ indicators \in [rsi : RsiInputs, supertrend : VoteInputs, macd : VoteInputs]
    /\ fused = NoFusedSignal
    /\ pc = "fusion"
    /\ initial_capital = DefaultInitialCapital
    /\ strategy = DefaultStrategy
    /\ entry = "call"
    /\ raised = "none"
    /\ generator = "none"
    /\ signals = <<>>
    /\ closes = <<>>
    /\ i = 1
    /\ position = None
    /\ capital = 0
    /\ trades = <<>>
    /\ opened = {}
    /\ results = NoResults
    /\ IndicatorsIdle
    /\ SignalsIdle

\* signal_analysis = analyze_combined_signals(indicators)
AnalyzeCombinedSignals ==
    /\ pc = "fusion"
    /\ pc' = "fused"
    /\ fused' = analyze_combined_signals(indicators)
    /\ UNCHANGED <<backtestVars, indicators, indicatorVars, signalVars>>

NextFusion == AnalyzeCombinedSignals

SpecFusion == InitFusion /\ [][NextFusion]_vars

\* ---- properties of _execute_trades ---------------------------------------
\* close * (1 + slippage) and close * (1 - slippage) in ticks, as the
\* specification states them
AdverseBuy(close) == close * SlippageDen + close * SlippageNum
AdverseSell(close) == close * SlippageDen - close * SlippageNum

\* trade t is the closed round trip of the position dict o
ClosesPosition(t, o) ==
    /\ t.entry_date = o.entry_date
    /\ t.entry_price = o.entry_price
    /\ t.quantity = o.quantity
    /\ t.side = o.side

\* the bar at hand repeats the direction of the open position
SameDirection ==
    /\ InLoop
    /\ \/ signals[i] = BUY /\ position.side = "long"
       \/ signals[i] = SELL /\ position.side = "short"

\* every position dict ever assigned is the current one or is in the ledger
OneOpenPosition ==
    \A o \in opened :
        o = position \/ \E k \in 1..Len(trades) : ClosesPosition(trades[k], o)

\* C1: a BUY while the open position is long, or a SELL while it is short,
\* leaves the position, the ledger and the capital unchanged on that bar, and
\* at any point every position opened so far except the current one is closed.
C1_SameDirectionNoOp ==
    /\ [][SameDirection =>
            (position' = position /\ trades' = trades /\ capital' = capital)]_vars
    /\ []OneOpenPosition

\* a same-direction signal has just been processed on a later bar than the entry
C1_Witness ==
    /\ pc = "loop"
    /\ i > 1
    /\ \/ signals[i - 1] = BUY /\ position.side = "long"
       \/ signals[i - 1] = SELL /\ position.side = "short"
    /\ position.entry_date < i - 1

\* the trade the forced close must record for position pos
ForcedClose(pos) ==
    LET last == closes[Len(closes)]
        exit_price == IF pos.side = "long" THEN AdverseSell(last) ELSE AdverseBuy(last)
        pnl == IF pos.side = "long"
               THEN (exit_price - pos.entry_price) * pos.quantity
               ELSE (pos.entry_price - exit_price) * pos.quantity
    IN [entry_date |-> pos.entry_date, exit_date |-> Len(closes),
        entry_price |-> pos.entry_price, exit_price |-> exit_price,
        quantity |-> pos.quantity, side |-> pos.side, pnl |-> pnl,
        pnl_pct |-> [num |-> pnl, den |-> pos.entry_price * pos.quantity],
        duration |-> Len(closes) - pos.entry_date]

\* C2: when a position is still held after the last bar, exactly one final
\* trade is appended that closes it at the last close, slippage-adjusted, with
\* the side of the position; in the returned ledger every position that was
\* ever opened has its closed trade.
C2_ForcedFinalClose ==
    /\ [][(pc = "loop" /\ pc' = "returned" /\ position # None) =>
            trades' = Append(trades, ForcedClose(position))]_vars
    /\ [](pc = "returned" =>
            \A o \in opened : \E k \in 1..Len(trades) : ClosesPosition(trades[k], o))

\* the ledger was returned after a forced close that followed a signal-driven one
C2_Witness ==
    /\ pc = "returned"
    /\ position # None
    /\ Len(trades) >= 2
    /\ trades[Len(trades)] = ForcedClose(position)
    /\ position.entry_date < Len(closes)

\* C3: the ledger is ordered by entry date and no trade starts before the
\* previous one has ended.
C3_LedgerOrderedNonOverlapping ==
    \A k \in 1..(Len(trades) - 1) :
        /\ trades[k].entry_date <= trades[k + 1].entry_date
        /\ trades[k + 1].entry_date >= trades[k].exit_date

\* the bar at hand carries a signal the position discipline lets act
EntryAttempt ==
    /\ InLoop
    /\ \/ signals[i] = BUY /\ position.side # "long"
       \/ signals[i] = SELL /\ position.side # "short"

\* the quantity the entry of the bar at hand is sized to, given the capital
\* after the bar
SizedQuantity(cap) ==
    LET fill == IF signals[i] = BUY THEN AdverseBuy(closes[i])
                ELSE AdverseSell(closes[i])
    IN IF cap < 0 THEN 0 ELSE (cap * PositionSizeNum) \div (PositionSizeDen * fill)

\* no position is closed twice in the ledger
NoPositionClosedTwice ==
    \A j, k \in 1..Len(trades) :
        (j < k) => ~(/\ trades[j].entry_date = trades[k].entry_date
                     /\ trades[j].side = trades[k].side)

\* C4: an entry sized to quantity 0 opens nothing and leaves the backtester
\* flat after the bar, also when the same signal has just closed the opposite
\* position; no position is recorded as closed twice.
C4_ZeroQuantityLeavesFlat ==
    /\ [][(EntryAttempt /\ SizedQuantity(capital') = 0) => position' = None]_vars
    /\ []NoPositionClosedTwice

\* the number of adjacent unequal pairs of the sequence s
RECURSIVE Flips(_)
Flips(s) ==
    IF Len(s) < 2 THEN 0
    ELSE (IF s[1] # s[2] THEN 1 ELSE 0) + Flips(Tail(s))

NonHold(s) == s # HOLD

\* C6: the number of trades is at most the number of direction flips among
\* the non-hold signals plus one, and zero when every signal is a hold.
C6_TradesBoundedByFlips ==
    (pc = "returned") =>
        LET acting == SelectSeq(signals, NonHold)
        IN /\ Len(trades) <= Flips(acting) + 1
           /\ (acting = <<>>) => (trades = <<>>)

\* the price-difference profit of trade t before any cost
GrossProfit(t) ==
    IF t.side = "long"
    THEN (t.exit_price - t.entry_price) * t.quantity
    ELSE (t.entry_price - t.exit_price) * t.quantity

\* C7: with the positive commission rate of the backtester, the pnl of every
\* trade is its gross profit less the commission, hence strictly below it.
C7_PnlNetOfCommission ==
    (CommissionNum > 0) =>
        \A k \in 1..Len(trades) : trades[k].pnl < GrossProfit(trades[k])

\* the fills of a round trip of the given side are adverse at both ends
AdverseFills(side, entry_date, entry_price, exit_date, exit_price) ==
    IF side = "long"
    THEN /\ entry_price = AdverseBuy(closes[entry_date])
         /\ exit_price = AdverseSell(closes[exit_date])
         /\ entry_price >= Ticks(closes[entry_date])
         /\ exit_price <= Ticks(closes[exit_date])
    ELSE /\ entry_price = AdverseSell(closes[entry_date])
         /\ exit_price = AdverseBuy(closes[exit_date])
         /\ entry_price <= Ticks(closes[entry_date])
         /\ exit_price >= Ticks(closes[exit_date])

\* C8: every fill is adjusted adversely by the slippage: buys (long entry,
\* short exit) at close * (1 + slippage), sells (short entry, long exit) at
\* close * (1 - slippage), for signal-driven and forced closes alike.
C8_SlippageAdverse ==
    /\ \A k \in 1..Len(trades) :
          AdverseFills(trades[k].side, trades[k].entry_date, trades[k].entry_price,
                       trades[k].exit_date, trades[k].exit_price)
    /\ (position # None) =>
          position.entry_price =
              IF position.side = "long" THEN AdverseBuy(closes[position.entry_date])
              ELSE AdverseSell(closes[position.entry_date])

\* the returned ledger holds a long and a short trade, one closed by a signal
\* before the last bar and one by the forced close
C8_Witness ==
    /\ pc = "returned"
    /\ position # None
    /\ \E j, k \in 1..Len(trades) :
          /\ trades[j].side = "long"
          /\ trades[k].side = "short"
          /\ trades[1].exit_date < Len(closes)

\* the pnl of the trades among the first j of the ledger closed on or before date
RECURSIVE PnlClosedBy(_, _, _)
PnlClosedBy(ts, j, date) ==
    IF j = 0 THEN 0
    ELSE (IF ts[j].exit_date <= date THEN ts[j].pnl ELSE 0) + PnlClosedBy(ts, j - 1, date)

\* floor(current_capital * position_size_fraction / entry_price)
FloorSize(cap, entry_price) == (cap * PositionSizeNum) \div (PositionSizeDen * entry_price)

\* C9: every opened position has quantity floor(current_capital *
\* position_size / entry_price) >= 1, current_capital being the initial
\* capital plus the pnl of every trade closed up to and on the entry bar.
C9_PositionSizing ==
    /\ \A k \in 1..Len(trades) :
          /\ trades[k].quantity >= 1
          /\ trades[k].quantity =
                FloorSize(Ticks(initial_capital)
                            + PnlClosedBy(trades, k - 1, trades[k].entry_date),
                          trades[k].entry_price)
    /\ (pc = "loop") =>
          /\ capital = Ticks(initial_capital) + PnlClosedBy(trades, Len(trades), i)
          /\ (position # None) =>
                /\ position.quantity >= 1
                /\ position.quantity =
                      FloorSize(Ticks(initial_capital)
                                  + PnlClosedBy(trades, Len(trades), position.entry_date),
                                position.entry_price)

\* a position was opened on the bar on which the previous one was closed, with
\* a capital that the closed trades have changed
C9_Witness ==
    /\ pc = "loop"
    /\ position # None
    /\ Len(trades) >= 1
    /\ trades[Len(trades)].exit_date = position.entry_date
    /\ trades[Len(trades)].pnl # 0
    /\ capital # Ticks(initial_capital)

\* the fill of the bar at hand
FillAtBar ==
    IF signals[i] = BUY THEN AdverseBuy(closes[i]) ELSE AdverseSell(closes[i])

SideOpenedBy(signal) == IF signal = BUY THEN "long" ELSE "short"

\* from FLAT a BUY opens LONG and a SELL opens SHORT, whatever the sizing
FromFlatOpens ==
    (InLoop /\ position = None /\ signals[i] # HOLD) =>
        position'.side = SideOpenedBy(signals[i])

\* from FLAT a BUY opens LONG and a SELL opens SHORT when the sized quantity
\* is positive, and the position stays FLAT otherwise; no trade is recorded
FromFlatOpensIfSized ==
    (InLoop /\ position = None /\ signals[i] # HOLD) =>
        /\ trades' = trades
        /\ capital' = capital
        /\ position' = IF FloorSize(capital, FillAtBar) > 0
                       THEN [side |-> SideOpenedBy(signals[i]), entry_date |-> i,
                             entry_price |-> FillAtBar,
                             quantity |-> FloorSize(capital, FillAtBar)]
                       ELSE None

\* from LONG a SELL, and from SHORT a BUY, appends one trade of the side of the
\* position, adds its pnl to the capital and opens the opposite position when
\* the sized quantity is positive
OppositeSignalFlips ==
    (InLoop /\ \/ position.side = "long" /\ signals[i] = SELL
               \/ position.side = "short" /\ signals[i] = BUY) =>
        LET closed == [entry_date |-> position.entry_date, exit_date |-> i,
                       entry_price |-> position.entry_price,
                       exit_price |-> FillAtBar,
                       quantity |-> position.quantity, side |-> position.side,
                       pnl |-> 0,
                       pnl_pct |-> [num |-> 0,
                                    den |-> position.entry_price * position.quantity],
                       duration |-> i - position.entry_date]
            pnl == GrossProfit(closed)
        IN /\ trades' = Append(trades, [closed EXCEPT !.pnl = pnl,
                                                       !.pnl_pct.num = pnl])
           /\ capital' = capital + pnl
           /\ (capital' > 0 /\ FloorSize(capital', FillAtBar) > 0) =>
                 position' = [side |-> SideOpenedBy(signals[i]), entry_date |-> i,
                              entry_price |-> FillAtBar,
                              quantity |-> FloorSize(capital', FillAtBar)]

\* a HOLD changes nothing
HoldChangesNothing ==
    (InLoop /\ signals[i] = HOLD) =>
        (position' = position /\ trades' = trades /\ capital' = capital)

\* C10 as stated: from FLAT a BUY opens LONG and a SELL opens SHORT; an
\* opposite signal closes the position with one trade of its side, adds the
\* pnl to the capital and re-opens the opposite side when the sized quantity is
\* positive; a HOLD changes nothing.
C10_StateMachineAsStated ==
    [][FromFlatOpens /\ OppositeSignalFlips /\ HoldChangesNothing]_vars

\* C10 amended: as stated, except that from FLAT the position is opened only
\* when the sized quantity is positive and the backtester stays FLAT otherwise.
C10_StateMachine ==
    [][FromFlatOpensIfSized /\ OppositeSignalFlips /\ HoldChangesNothing]_vars

\* a first signal was skipped for quantity 0 while flat, and later an opposite
\* signal closed a position and opened the other side on the same bar
C10_Witness ==
    /\ pc = "loop"
    /\ Len(signals) >= 1
    /\ signals[1] # HOLD
    /\ \A o \in opened : o.entry_date # 1
    /\ Len(trades) >= 1
    /\ position # None
    /\ position.entry_date = trades[Len(trades)].exit_date
    /\ position.side # trades[Len(trades)].side

\* ---- properties of _calculate_performance --------------------------------
\* the pnl of the first k trades of the ledger
RECURSIVE PrefixPnl(_, _)
PrefixPnl(ts, k) == IF k = 0 THEN 0 ELSE PrefixPnl(ts, k - 1) + ts[k].pnl

\* C5: for a non-empty ledger the equity curve starts at the initial capital,
\* its k-th point is the initial capital plus the pnl of the first k trades,
\* its last point is the initial capital plus the pnl of all trades, and the
\* equity and drawdown curves have one point more than the ledger has trades.
C5_EquityCurveNoLeakage ==
    (pc = "reported" /\ trades # <<>>) =>
        /\ Len(results.equity_curve) = Len(trades) + 1
        /\ Len(results.drawdown_curve) = Len(trades) + 1
        /\ \A k \in 0..Len(trades) :
              results.equity_curve[k + 1] = Ticks(initial_capital) + PrefixPnl(trades, k)
        /\ results.equity_curve[Len(trades) + 1] =
              Ticks(initial_capital) + PrefixPnl(trades, Len(trades))

\* a report over a ledger with a winning and a losing trade
C5_Witness ==
    /\ pc = "reported"
    /\ Len(trades) >= 2
    /\ \E j, k \in 1..Len(trades) : trades[j].pnl > 0 /\ trades[k].pnl < 0

\* ---- properties of backtest_strategy -------------------------------------
\* C11: for every configured initial capital, the report of an empty ledger
\* has every metric 0, no trades, and the one-point equity curve
\* [initial_capital] of that backtester.
C11_EmptyReportStartsAtInitialCapital ==
    (pc = "reported" /\ trades = <<>>) =>
        /\ results.total_trades = 0
        /\ results.total_pnl = 0
        /\ results.max_drawdown.num = 0
        /\ results.trades = <<>>
        /\ results.equity_curve = <<Ticks(initial_capital)>>

\* C12: a strategy name that is not one of the four supported ones is
\* rejected before any signal is generated or any trade is executed: no
\* generator is called for it and no ledger is built.
C12_UnknownStrategyRejected ==
    (strategy \notin SupportedStrategies) =>
        (generator = "none" /\ signals = <<>> /\ trades = <<>>)

\* ---- properties of analyze_combined_signals -------------------------------
\* the vote each supplied indicator casts, from its current value
CastVotes ==
    LET current == indicators.rsi
        zone == IF current.kind = "number" /\ current.value < 30 THEN "BUY"
                ELSE IF current.kind = "number" /\ current.value > 70 THEN "SELL"
                ELSE "HOLD"
    IN (IF current.kind = "absent" THEN <<>> ELSE <<zone>>)
       \o (IF indicators.supertrend = "absent" THEN <<>> ELSE <<indicators.supertrend>>)
       \o (IF indicators.macd = "absent" THEN <<>> ELSE <<indicators.macd>>)

VotesFor(direction) ==
    Cardinality({k \in 1..Len(CastVotes) : CastVotes[k] = direction})

\* (#BUY votes) - (#SELL votes)
Score == VotesFor("BUY") - VotesFor("SELL")

\* the direction the specification maps a score to
DirectionOfScore(score) ==
    CASE score >= 2 -> "STRONG BUY"
      [] score = 1 -> "BUY"
      [] score = 0 -> "HOLD"
      [] score = 0 - 1 -> "SELL"
      [] score <= 0 - 2 -> "STRONG SELL"

\* C13: with the three indicators voting, the strength is the number of BUY
\* votes minus the number of SELL votes and the overall direction is STRONG BUY
\* for a score >= 2, BUY for 1, HOLD for 0, SELL for -1, STRONG SELL for <= -2;
\* equal BUY and SELL counts give HOLD.
C13_ScoreToDirection ==
    (pc = "fused" /\ Len(CastVotes) = 3) =>
        /\ fused.strength = Score
        /\ fused.overall = DirectionOfScore(Score)
        /\ (VotesFor("BUY") = VotesFor("SELL")) => (fused.overall = "HOLD")

\* three indicators voted, one BUY against one SELL
C13_Witness ==
    /\ pc = "fused"
    /\ Len(CastVotes) = 3
    /\ VotesFor("BUY") = 1
    /\ VotesFor("SELL") = 1
    /\ fused.overall = "HOLD"

\* C14: with N = 1, 2 or 3 indicators supplied the confidence is
\* |score| / N * 100; it is 100 exactly when all N cast the same non-HOLD vote.
C14_ConfidenceOverSupplied ==
    (pc = "fused" /\ Len(CastVotes) >= 1) =>
        /\ fused.confidence.num * Len(CastVotes)
              = Abs(Score) * 100 * fused.confidence.den
        /\ (fused.confidence.num = 100 * fused.confidence.den)
              <=> (Abs(Score) = Len(CastVotes))

\* ---- properties of calculate_rsi -------------------------------------------
\* calculate_rsi has returned
RsiComputed == pc \in {"rsi", "supertrend", "demo_supertrend"}

\* the close column of the price table
CloseColumn == [k \in 1..Len(ohlc) |-> ohlc[k].Close]

\* C16: the RSI series has the length of the input and its first period
\* entries (bars 1..period, the code's indices 0..period-1) are undefined.
C16_RsiWarmUpUndefined ==
    RsiComputed =>
        /\ Len(rsi) = Len(ohlc)
        /\ \A k \in 1..Len(rsi) : (k <= period) => rsi[k].nan

\* the gains and the losses summed over the window that ends at bar k
WindowGain(k) == GainSum(CloseColumn, k - period + 1, k)
WindowLoss(k) == 0 - LossSum(CloseColumn, k - period + 1, k)

\* C17: every defined RSI value lies in [0, 100]; over a full window with no
\* loss and some gain the value is exactly 100, not undefined, and with no
\* gain and some loss it is exactly 0.
C17_RsiBounded ==
    RsiComputed =>
        \A k \in 1..Len(rsi) :
            /\ ~rsi[k].nan => (0 <= rsi[k].num /\ rsi[k].num <= 100 * rsi[k].den)
            /\ (k >= period /\ WindowLoss(k) = 0 /\ WindowGain(k) > 0) =>
                  (~rsi[k].nan /\ rsi[k].num = 100 * rsi[k].den)
            /\ (k >= period /\ WindowGain(k) = 0 /\ WindowLoss(k) > 0) =>
                  (~rsi[k].nan /\ rsi[k].num = 0)

\* a series with an RSI of exactly 100 over a window without loss and an RSI
\* of exactly 0 over a window without gain
C17_Witness ==
    /\ RsiComputed
    /\ \E j, k \in 1..Len(rsi) :
          /\ ~rsi[j].nan /\ rsi[j].num = 100 * rsi[j].den /\ WindowLoss(j) = 0
          /\ ~rsi[k].nan /\ rsi[k].num = 0 /\ WindowGain(k) = 0

\* ---- signal generation -----------------------------------------------------
\* a signal generator is called on any table of up to MaxRows rows
InitSignals ==
    /\ \E n \in 0..MaxRows : \E rows \in [1..n -> Rows] : dataframe = DataFrame(rows)
    /\ generated = NoSignals
    /\ trade_signal = <<>>
    /\ pc = "signals"
    /\ initial_capital = DefaultInitialCapital
    /\ strategy = DefaultStrategy
    /\ entry = "call"
    /\ raised = "none"
    /\ generator = "none"
    /\ signals = <<>>
    /\ closes = <<>>
    /\ i = 1
    /\ position = None
    /\ capital = 0
    /\ trades = <<>>
    /\ opened = {}
    /\ results = NoResults
    /\ FusionIdle
    /\ IndicatorsIdle

\* signals = self._generate_combined_signals(data)
GenerateCombinedSignals ==
    /\ pc = "signals"
    /\ pc' = "generated"
    /\ generated' = [by |-> "_generate_combined_signals",
                     signals |-> _generate_combined_signals(dataframe),
                     votes |-> [k \in 1..Rowcount(dataframe) |-> Votes(dataframe, k)]]
    /\ UNCHANGED <<backtestVars, fusionVars, indicatorVars, dataframe, trade_signal>>

\* signals = self._generate_rsi_signals(data)
GenerateRsiSignals ==
    /\ pc = "signals"
    /\ pc' = "generated"
    /\ generated' = [by |-> "_generate_rsi_signals",
                     signals |-> _generate_rsi_signals(dataframe), votes |-> <<>>]
    /\ UNCHANGED <<backtestVars, fusionVars, indicatorVars, dataframe, trade_signal>>

\* signals = self._generate_trend_signals(data)
GenerateTrendSignals ==
    /\ pc = "signals"
    /\ pc' = "generated"
    /\ generated' = [by |-> "_generate_trend_signals",
                     signals |-> _generate_trend_signals(dataframe), votes |-> <<>>]
    /\ UNCHANGED <<backtestVars, fusionVars, indicatorVars, dataframe, trade_signal>>

\* signals = self._generate_breakout_signals(data)
GenerateBreakoutSignals ==
    /\ pc = "signals"
    /\ pc' = "generated"
    /\ generated' = [by |-> "_generate_breakout_signals",
                     signals |-> _generate_breakout_signals(dataframe), votes |-> <<>>]
    /\ dataframe' = WithBreakoutColumns(dataframe)
    /\ UNCHANGED <<backtestVars, fusionVars, indicatorVars, trade_signal>>

\* the 'Trade_Signal' list of calculate_macd (demo.py); its two lines are the
\* columns 'MACD' and 'MACD_Signal' of the table, any two series
DemoMacdTradeSignals ==
    /\ pc = "signals"
    /\ pc' = "trade_signal"
    /\ trade_signal' = [k \in 1..Rowcount(dataframe) |->
                           MacdTradeSignal(dataframe["MACD"], dataframe["MACD_Signal"], k)]
    /\ UNCHANGED <<backtestVars, fusionVars, indicatorVars, dataframe, generated>>

NextSignals ==
    \/ GenerateCombinedSignals
    \/ GenerateRsiSignals
    \/ GenerateTrendSignals
    \/ GenerateBreakoutSignals
    \/ DemoMacdTradeSignals

SpecSignals == InitSignals /\ [][NextSignals]_vars

\* ---- Supertrend ----------------------------------------------------------

SupertrendComputed ==
    pc \in {"supertrend", "demo_supertrend"} /\ supertrend.error = "none"

DemoSupertrendComputed == pc = "demo_supertrend"

\* the band moved down or kept the value of the bar before
DownOrSame(band, k) == band[k] = band[k - 1] \/ Lt(band[k], band[k - 1])

UpOrSame(band, k) == band[k] = band[k - 1] \/ Gt(band[k], band[k - 1])

\* C18: in calculate_supertrend of src/indicators.py, for every bar after the
\* first, the final upper band is at or below the upper band of the bar before
\* unless the close of the bar before was above that band, and the final lower
\* band is at or above the lower band of the bar before unless the close of the
\* bar before was below that band; when the exception applies the band is the
\* bar's own candidate, midpoint plus or minus multiplier times ATR.  A band
\* that is undefined and stays undefined counts as staying.
C18_BandStickiness ==
    SupertrendComputed =>
        \A k \in 2..Len(ohlc) :
            /\ IF Gt(CloseAt(ohlc, k - 1), supertrend.upper_band[k - 1])
               THEN supertrend.upper_band[k]
                        = UpperCandidate(ohlc, k, period, multiplier)
               ELSE DownOrSame(supertrend.upper_band, k)
            /\ IF Lt(CloseAt(ohlc, k - 1), supertrend.lower_band[k - 1])
               THEN supertrend.lower_band[k]
                        = LowerCandidate(ohlc, k, period, multiplier)
               ELSE UpOrSame(supertrend.lower_band, k)

\* a series whose upper band is held below a higher candidate at one bar and
\* rises to its candidate at the next, the close having broken above it
C18_Witness ==
    /\ SupertrendComputed
    /\ \E k \in 2..(Len(ohlc) - 1) :
          /\ Gt(UpperCandidate(ohlc, k, period, multiplier),
                supertrend.upper_band[k])
          /\ supertrend.upper_band[k] = supertrend.upper_band[k - 1]
          /\ Gt(CloseAt(ohlc, k), supertrend.upper_band[k])
          /\ Gt(supertrend.upper_band[k + 1], supertrend.upper_band[k])

\* direction[k] differs from direction[k - 1] only on a breach of the opposite
\* band at bar k, and is carried over when there is no breach
ChangesOnlyOnBreach(table, direction, lower_band, upper_band, down, up) ==
    /\ \A k \in 1..Len(direction) : direction[k] \in {down, up}
    /\ \A k \in 2..Len(direction) :
          /\ (direction[k] # direction[k - 1] /\ direction[k] = down)
                 => Le(CloseAt(table, k), lower_band[k])
          /\ (direction[k] # direction[k - 1] /\ direction[k] = up)
                 => Ge(CloseAt(table, k), upper_band[k])
          /\ (~Le(CloseAt(table, k), lower_band[k])
                 /\ ~Ge(CloseAt(table, k), upper_band[k]))
                 => direction[k] = direction[k - 1]

\* C19: the Supertrend direction of both classes takes only the two values
\* UPTREND and DOWNTREND ('BUY' and 'SELL' in demo.py), and for every bar after
\* the first it differs from the direction of the bar before only if the close
\* breaches the opposite band at that bar: a change to DOWNTREND requires
\* close <= lower band, a change to UPTREND requires close >= upper band; with
\* no breach the direction of the bar before is carried over.
C19_DirectionChangesOnBreach ==
    /\ SupertrendComputed =>
          ChangesOnlyOnBreach(ohlc, supertrend.direction, supertrend.lower_band,
                              supertrend.upper_band, DOWNTREND, UPTREND)
    /\ DemoSupertrendComputed =>
          ChangesOnlyOnBreach(ohlc, demo_supertrend.direction,
                              demo_supertrend.lower_band,
                              demo_supertrend.upper_band, "SELL", "BUY")

\* a series on which the direction of src/indicators.py turns down and up
\* again, and the direction of demo.py turns from 'SELL' to 'BUY'
C19_Witness ==
    /\ SupertrendComputed
    /\ DemoSupertrendComputed
    /\ \E j, k \in 2..Len(ohlc) :
          /\ supertrend.direction[j - 1] = UPTREND
          /\ supertrend.direction[j] = DOWNTREND
          /\ supertrend.direction[k - 1] = DOWNTREND
          /\ supertrend.direction[k] = UPTREND
    /\ \E k \in 2..Len(ohlc) :
          /\ demo_supertrend.direction[k - 1] = "SELL"
          /\ demo_supertrend.direction[k] = "BUY"

\* C20: calculate_supertrend of src/indicators.py initializes the first bar
\* with direction DOWNTREND and the trend line equal to the upper band
\* candidate, for every non-empty price series.
C20_FirstBarDowntrendAtUpperCandidate ==
    (SupertrendComputed /\ ohlc # <<>>) =>
        /\ supertrend.direction[1] = DOWNTREND
        /\ supertrend.supertrend[1] = UpperCandidate(ohlc, 1, period, multiplier)

\* ---- properties of the signal generators -----------------------------------
CombinedGenerated ==
    pc = "generated" /\ generated.by = "_generate_combined_signals"

\* the two lines are in the order a crossing up at bar k needs
CrossedUp(macd, signal_line, k) ==
    k >= 2 /\ Gt(macd[k], signal_line[k]) /\ Le(macd[k - 1], signal_line[k - 1])

CrossedDown(macd, signal_line, k) ==
    k >= 2 /\ Lt(macd[k], signal_line[k]) /\ Ge(macd[k - 1], signal_line[k - 1])

\* C21: the MACD crossover signals agree with the order of the two lines: a
\* BUY at bar i implies macd[i] > signal_line[i] and macd[i-1] <=
\* signal_line[i-1], a SELL at bar i implies macd[i] < signal_line[i] and
\* macd[i-1] >= signal_line[i-1]; the first bar is always HOLD and no bar is
\* both BUY and SELL.  This holds for the 'Trade_Signal' list of demo.py and
\* for the MACD vote of _generate_combined_signals.
C21_MacdCrossoverConsistent ==
    /\ (pc = "trade_signal") =>
          /\ Len(trade_signal) = Rowcount(dataframe)
          /\ \A k \in 1..Len(trade_signal) :
                /\ trade_signal[k] \in {"BUY", "SELL", "HOLD"}
                /\ (trade_signal[k] = "BUY") =>
                       CrossedUp(dataframe["MACD"], dataframe["MACD_Signal"], k)
                /\ (trade_signal[k] = "SELL") =>
                       CrossedDown(dataframe["MACD"], dataframe["MACD_Signal"], k)
                /\ (k = 1) => trade_signal[k] = "HOLD"
    /\ CombinedGenerated =>
          \A k \in 1..Len(generated.votes) :
                /\ generated.votes[k].macd \in {BUY, SELL, HOLD}
                /\ (generated.votes[k].macd = BUY) =>
                       CrossedUp(dataframe["MACD"], dataframe["MACD_Signal"], k)
                /\ (generated.votes[k].macd = SELL) =>
                       CrossedDown(dataframe["MACD"], dataframe["MACD_Signal"], k)
                /\ (k = 1) => generated.votes[k].macd = HOLD

\* a 'Trade_Signal' list with a BUY after the MACD line crossed up from equality
C21_Witness ==
    /\ pc = "trade_signal"
    /\ \E k \in 2..Len(trade_signal) :
          /\ trade_signal[k] = "BUY"
          /\ Equals(dataframe["MACD"][k - 1], dataframe["MACD_Signal"][k - 1])

\* the number of the three indicators that vote side at bar k
Agreeing(k, side) ==
    Cardinality({name \in {"rsi", "supertrend", "macd"} :
                    generated.votes[k][name] = side})

\* C23: the combined strategy emits BUY at bar i exactly when at least 2 of
\* the 3 indicators vote BUY at bar i, SELL exactly when at least 2 of the 3
\* vote SELL, and HOLD otherwise; BUY and SELL never both qualify at one bar,
\* and the first bar is always HOLD.
C23_CombinedMajority ==
    CombinedGenerated =>
        /\ Len(generated.signals) = Rowcount(dataframe)
        /\ \A k \in 1..Len(generated.signals) :
              /\ (generated.signals[k] = BUY) <=> (Agreeing(k, BUY) >= 2)
              /\ (generated.signals[k] = SELL) <=> (Agreeing(k, SELL) >= 2)
              /\ (generated.signals[k] = HOLD) <=>
                     (Agreeing(k, BUY) < 2 /\ Agreeing(k, SELL) < 2)
              /\ ~(Agreeing(k, BUY) >= 2 /\ Agreeing(k, SELL) >= 2)
              /\ (k = 1) => generated.signals[k] = HOLD

\* a BUY emitted on two BUY votes against one SELL vote
C23_Witness ==
    /\ CombinedGenerated
    /\ \E k \in 2..Len(generated.signals) :
          /\ generated.signals[k] = BUY
          /\ Agreeing(k, BUY) = 2
          /\ Agreeing(k, SELL) = 1

\* C27: the core only reads the price table it is given: an indicator
\* calculation, a signal generator or _execute_trades leaves the table with
\* the same columns and the same values.
C27_PriceTableOnlyRead ==
    [][dataframe' = dataframe /\ ohlc' = ohlc /\ closes' = closes]_vars

\* ---- short series -----------------------------------------------------------
\* C22: on a price series with fewer bars than the period, the empty series
\* included, calculate_rsi and calculate_supertrend return without raising,
\* and every value they return (RSI value, Supertrend bands and direction) is
\* undefined.
C22_ShortSeriesAllUndefined ==
    (pc \in {"supertrend", "demo_supertrend"} /\ Len(ohlc) < period) =>
        /\ supertrend.error = "none"
        /\ Len(rsi) = Len(ohlc)
        /\ \A k \in 1..Len(rsi) : rsi[k].nan
        /\ \A k \in 1..Len(supertrend.direction) :
              /\ supertrend.upper_band[k].nan
              /\ supertrend.lower_band[k].nan
              /\ supertrend.direction[k] \notin {UPTREND, DOWNTREND}

\* C29: for every period >= 2 and every series longer than the period, the
\* bands calculate_supertrend of src/indicators.py returns are defined at every
\* bar from the end of the ATR warm-up (bar number period) on.
C29_BandsDefinedAfterWarmUp ==
    (SupertrendComputed /\ period >= 2 /\ Len(ohlc) > period) =>
        \A k \in period..Len(ohlc) :
            /\ ~supertrend.upper_band[k].nan
            /\ ~supertrend.lower_band[k].nan

\* ---- drawdown and the guarded metrics ---------------------------------------
Reported == pc = "reported" /\ trades # <<>>

\* the maximum of the first k points of the equity curve
PeakToDate(k) ==
    CHOOSE peak \in {results.equity_curve[j] : j \in 1..k} :
        \A j \in 1..k : results.equity_curve[j] <= peak

\* C24: for every non-empty ledger, each point of the drawdown curve is the
\* decline of that point of the equity curve from the maximum of the curve up
\* to it, as a share of that maximum; every drawdown is >= 0, it is 0 where
\* the equity reaches a new peak, and max_drawdown is the maximum of the
\* drawdown curve.
C24_DrawdownFromRunningPeak ==
    Reported =>
        /\ Len(results.drawdown_curve) = Len(results.equity_curve)
        /\ \A k \in 1..Len(results.drawdown_curve) :
              /\ SameRatio(results.drawdown_curve[k],
                           Ratio(PeakToDate(k) - results.equity_curve[k],
                                 PeakToDate(k)))
              /\ results.drawdown_curve[k].num >= 0
              /\ results.drawdown_curve[k].den > 0
              /\ (\A j \in 1..(k - 1) :
                     results.equity_curve[j] < results.equity_curve[k])
                    => results.drawdown_curve[k].num = 0
        /\ \E k \in 1..Len(results.drawdown_curve) :
              results.max_drawdown = results.drawdown_curve[k]
        /\ \A k \in 1..Len(results.drawdown_curve) :
              ~RatioGreater(results.drawdown_curve[k], results.max_drawdown)

\* a report whose equity falls below its peak and later rises to a new peak
C24_Witness ==
    /\ Reported
    /\ \E j, k \in 1..Len(results.drawdown_curve) :
          /\ j < k
          /\ results.drawdown_curve[j].num > 0
          /\ results.equity_curve[k] = PeakToDate(k)
          /\ results.equity_curve[k] > PeakToDate(k - 1)

\* the summed pnl of the trades with pnl <= 0
RECURSIVE LosingPnl(_, _)
LosingPnl(ts, k) ==
    IF k = 0 THEN 0
    ELSE (IF ts[k].pnl <= 0 THEN ts[k].pnl ELSE 0) + LosingPnl(ts, k - 1)

\* C25: for every non-empty ledger and positive initial capital,
\* _calculate_performance returns the report of that ledger, not the empty
\* report of its exception path, with the fallback at each zero denominator:
\* profit_factor is +infinity when the summed pnl of the losing trades is 0,
\* sharpe_ratio is 0 when all pnl_pct are the same (a single trade included),
\* annual_return is 0 when the first entry and the last exit are the same day.
C25_ZeroDenominatorFallbacks ==
    Reported =>
        /\ results.trades = trades
        /\ results.total_trades = Len(trades)
        /\ (LosingPnl(trades, Len(trades)) = 0) => results.profit_factor.kind = "inf"
        /\ (\A k \in 1..Len(trades) : SameRatio(trades[k].pnl_pct, trades[1].pnl_pct))
              => results.sharpe_ratio.kind = "zero"
        /\ (Len(trades) = 1) => results.sharpe_ratio.kind = "zero"
        /\ (trades[Len(trades)].exit_date = trades[1].entry_date)
              => results.annual_return.kind = "zero"

\* a report of one winning trade: no losing trade and no spread of pnl_pct
C25_Witness ==
    /\ Reported
    /\ Len(trades) = 1
    /\ trades[1].pnl > 0
    /\ LosingPnl(trades, 1) = 0
    /\ results.profit_factor.kind = "inf"
    /\ results.sharpe_ratio.kind = "zero"
    /\ results.annual_return.kind = "ratio"

\* a report of one trade opened and closed on the last bar
SameDayReport ==
    /\ Reported
    /\ trades[Len(trades)].exit_date = trades[1].entry_date
    /\ results.annual_return.kind = "zero"

\* ---- properties of a whole backtest -----------------------------------------
\* backtest_strategy has returned from a call on a non-empty table
CalledAndReported == pc = "reported" /\ entry = "call" /\ closes # <<>>

StrictlyIncreasing(series) == \A k \in 2..Len(series) : series[k] > series[k - 1]

\* C26: on a strictly increasing series a combined-strategy backtest opens one
\* long position, gets no closing signal and closes it at a profit by the
\* forced liquidation at the end of the series: the ledger of the report is
\* exactly one long trade with pnl > 0, closed on the last bar.
C26_RisingSeriesOneLongTrade ==
    (CalledAndReported /\ strategy = "combined_signals" /\ Len(closes) >= 2
        /\ StrictlyIncreasing(closes)) =>
        /\ Len(results.trades) = 1
        /\ results.trades[1].side = "long"
        /\ results.trades[1].pnl > 0
        /\ results.trades[1].exit_date = Len(closes)

\* C28: a computation failure inside a backtest is never reported as a
\* plausible all-zero result: what backtest_strategy returns after an
\* exception of the indicators, the signals, the execution or the metrics
\* differs from the report of a backtest that ran correctly and made no trade.
C28_FailureDistinguishable ==
    (pc = "reported" /\ raised \notin {"none", "ValueError"}) =>
        results # _calculate_performance(<<>>)

\* C30: on non-empty data and a supported strategy name, backtest_strategy
\* reaches trade execution and returns the performance computed from the
\* ledger of _execute_trades; what it passes to the indicators and reads from
\* their results is accepted and provided, so the except clause is not taken.
C30_ValidInputReachesExecution ==
    (CalledAndReported /\ strategy \in SupportedStrategies) =>
        /\ raised = "none"
        /\ generator = Generator(strategy)
        /\ Len(signals) = Len(closes)
        /\ results = _calculate_performance(trades)

====
